---- MODULE Spec2Model ----
(***************************************************************************)
(* A model of pano360's camera estimation and compositing code             *)
(* (bundle_adj.py).  Floating point numbers are modelled as exact          *)
(* fractions n/d; a fraction with d = 0 stands for the IEEE results of a   *)
(* division by zero (0/0 = NaN, +-1/0 = +-Inf).  Angles are measured on a  *)
(* grid of quarter turns, on which sin, cos and arccos are exact.          *)
(***************************************************************************)
EXTENDS Integers, Sequences, FiniteSets

\* ------------------------------------------------------------------ bounds
\* Largest axis-angle magnitude tried, in quarter turns (pi/2).
MaxQuarter == 6
\* Largest focal length of the synthetic intrinsics.
MaxFocal == 3
\* Largest number of pairwise homographies (cameras) of a panorama.
MaxHoms == 4
\* Grid steps per half turn (pi) of the projected corner coordinates.
HalfTurn == 2
\* Largest number of regions (cameras) stitched.
MaxRegions == 2
\* Width of the mosaic in pixels.
MosaicWidth == 2
\* Largest number of regions composited.
MaxPasses == 2

\* ------------------------------------------------------- program constants
MAX_RESOLUTION == 1400

\* -------------------------------------------------------------- arithmetic
AbsI(x) == IF x < 0 THEN -x ELSE x

Sign(x) == IF x > 0 THEN 1 ELSE IF x < 0 THEN -1 ELSE 0

RECURSIVE Gcd(_, _)
Gcd(a, b) == IF b = 0 THEN a ELSE Gcd(b, a % b)

\* x / y when y divides x (the quotient truncates towards zero otherwise).
QuotI(x, y) == Sign(x) * Sign(y) * (AbsI(x) \div AbsI(y))

\* The non-negative root of a perfect square.
ISqrt(x) == CHOOSE r \in 0..x : r * r = x

\* ------------------------------------------------------ 3x3 integer arrays
Idx == 1..3

Eye3 == << <<1, 0, 0>>, <<0, 1, 0>>, <<0, 0, 1>> >>

Dot(A, B) ==
    [i \in Idx |-> [j \in Idx |-> A[i][1] * B[1][j] + A[i][2] * B[2][j] + A[i][3] * B[3][j]]]

Transpose(A) == [i \in Idx |-> [j \in Idx |-> A[j][i]]]

Scale(A, k) == [i \in Idx |-> [j \in Idx |-> A[i][j] * k]]

Plus(A, B) == [i \in Idx |-> [j \in Idx |-> A[i][j] + B[i][j]]]

Det(A) ==
    A[1][1] * (A[2][2] * A[3][3] - A[2][3] * A[3][2])
  - A[1][2] * (A[2][1] * A[3][3] - A[2][3] * A[3][1])
  + A[1][3] * (A[2][1] * A[3][2] - A[2][2] * A[3][1])

Trace(A) == A[1][1] + A[2][2] + A[3][3]

\* The adjugate: Dot(A, Adj(A)) = Det(A) * Eye3.
Adj(A) ==
    LET c(i, j) ==
            LET r1 == (i % 3) + 1
                r2 == ((i + 1) % 3) + 1
                c1 == (j % 3) + 1
                c2 == ((j + 1) % 3) + 1
            IN  A[r1][c1] * A[r2][c2] - A[r1][c2] * A[r2][c1]
    IN  [i \in Idx |-> [j \in Idx |-> c(j, i)]]

Norm(v) == ISqrt(v[1] * v[1] + v[2] * v[2] + v[3] * v[3])

\* ------------------------------------- float arrays: num / den, den > 0
MatGcd(A) ==
    LET row(i) == Gcd(Gcd(AbsI(A[i][1]), AbsI(A[i][2])), AbsI(A[i][3]))
    IN  Gcd(Gcd(row(1), row(2)), row(3))

\* The array num / den in lowest terms with a positive denominator.
Mat(num, den) ==
    LET g == Gcd(MatGcd(num), AbsI(den))
        s == Sign(den)
    IN  [num |-> [i \in Idx |-> [j \in Idx |-> QuotI(s * num[i][j], g)]],
         den |-> AbsI(den) \div g]

MatDot(A, B) == Mat(Dot(A.num, B.num), A.den * B.den)

MatT(A) == [num |-> Transpose(A.num), den |-> A.den]

\* np.linalg.inv of an invertible array: den * adj(num) / det(num).
MatInv(A) == Mat(Scale(Adj(A.num), A.den), Det(A.num))

MatEye == Mat(Eye3, 1)

\* --------------------------------------------------- floats: n / d, d >= 0
\* d = 0 holds the results of a division by zero: 0/0 is NaN, +-1/0 is +-Inf.
Flt(n, d) ==
    IF d = 0 THEN [n |-> Sign(n), d |-> 0]
    ELSE LET g == Gcd(AbsI(n), AbsI(d))
         IN  [n |-> QuotI(Sign(d) * n, g), d |-> AbsI(d) \div g]

FInt(k) == [n |-> k, d |-> 1]

FNan == [n |-> 0, d |-> 0]

FIsNan(a) == a.n = 0 /\ a.d = 0

FNeg(a) == [n |-> -a.n, d |-> a.d]

FAbs(a) == [n |-> AbsI(a.n), d |-> a.d]

FMul(a, b) == Flt(a.n * b.n, a.d * b.d)

FRecip(a) ==
    IF a.n = 0 THEN (IF a.d = 0 THEN FNan ELSE [n |-> 1, d |-> 0])
    ELSE IF a.d = 0 THEN FInt(0)
    ELSE [n |-> Sign(a.n) * a.d, d |-> AbsI(a.n)]

FDiv(a, b) == FMul(a, FRecip(b))

FAdd(a, b) ==
    IF a.d # 0 /\ b.d # 0 THEN Flt(a.n * b.d + b.n * a.d, a.d * b.d)
    ELSE IF FIsNan(a) \/ FIsNan(b) THEN FNan
    ELSE IF a.d = 0 /\ b.d = 0 THEN (IF a.n = b.n THEN a ELSE FNan)
    ELSE IF a.d = 0 THEN a ELSE b

FSub(a, b) == FAdd(a, FNeg(b))

\* a < b; every comparison with NaN is false.
FLt(a, b) ==
    IF FIsNan(a) \/ FIsNan(b) THEN FALSE
    ELSE IF a.d = 0 /\ b.d = 0 THEN a.n < b.n
    ELSE a.n * b.d < b.n * a.d

FGt0(a) == FLt(FInt(0), a)

\* np.sqrt; the root of a negative number is NaN.
FSqrt(a) ==
    IF FIsNan(a) \/ a.n < 0 THEN FNan ELSE [n |-> ISqrt(a.n), d |-> ISqrt(a.d)]

\* Truth value of a float: false for zero only (NaN is true).
FTruthy(a) == ~(a.n = 0 /\ a.d # 0)

\* ------------------------------------------------------------------- state
\* One record per component; a component a specification does not run stays
\* at its idle value.
VARIABLES
    expo,   \* the exponential map round trip (rotation_to_mat, mat_to_angle)
    cam,    \* an Image with its hom() and inv_hom()
    avg,    \* absolute_rotations: its arguments, locals and return value
    sel,    \* _focal: its arguments and return value
    est,    \* initial_estimate: the homographies, focals and shared focal
    rng,    \* _proj_img_range_corners: the projected corners and the Range
    res,    \* estimate_resolution and the buffer geometry of stitch
    mos     \* the compositing loop of stitch: the mosaic and the passes made

vars == <<expo, cam, avg, sel, est, rng, res, mos>>

NoMat == [ok |-> FALSE, m |-> Eye3]
NoRad == [scalar |-> TRUE, v |-> <<0, 0, 0>>]

IdleExpo == [pc |-> "idle", rad0 |-> <<0, 0, 0>>, rot |-> NoMat, rad |-> NoRad, back |-> NoMat]

IdleCam == [pc |-> "idle", rot |-> MatEye, intr |-> MatEye, hom |-> MatEye,
            inv |-> MatEye, prod |-> MatEye]

IdleAvg == [pc |-> "idle", planted |-> <<>>, homs |-> <<>>, kints |-> <<>>, rots |-> <<>>,
            mid |-> 0, i |-> 0, rot_r |-> <<>>, rot_l |-> <<>>, out |-> <<>>]

IdleSel == [pc |-> "idle", v1 |-> FInt(0), v2 |-> FInt(0), d1 |-> FInt(0), d2 |-> FInt(0),
            ret |-> FInt(0)]

IdleEst == [pc |-> "idle", homs |-> <<>>, focals |-> <<>>, foc |-> FInt(0)]

IdleRng == [pc |-> "idle", pts |-> <<>>, range |-> <<>>]

IdleRes == [pc |-> "idle", ranges |-> <<>>, im_shape |-> <<>>, resolution |-> <<>>,
            im_range |-> <<>>, target |-> <<>>, shape |-> <<>>, bottom |-> <<>>, top |-> <<>>]

IdleMos == [pc |-> "idle", mosaic |-> <<>>, passes |-> <<>>]

\* The components a specification leaves alone.
OthersExp == <<cam, avg, sel, est, rng, res, mos>>
OthersCam == <<expo, avg, sel, est, rng, res, mos>>
OthersAvg == <<expo, cam, sel, est, rng, res, mos>>
OthersSel == <<expo, cam, avg, est, rng, res, mos>>
OthersEst == <<expo, cam, avg, sel, rng, res, mos>>
OthersRng == <<expo, cam, avg, sel, est, res, mos>>
OthersRes == <<expo, cam, avg, sel, est, rng, mos>>
OthersMos == <<expo, cam, avg, sel, est, rng, res>>

\* ------------------------------------------------------- rotation algebra
\* sin and cos of k quarter turns.
SinQ(k) == CASE k % 4 = 0 -> 0 [] k % 4 = 1 -> 1 [] k % 4 = 2 -> 0 [] k % 4 = 3 -> -1

CosQ(k) == CASE k % 4 = 0 -> 1 [] k % 4 = 1 -> 0 [] k % 4 = 2 -> -1 [] k % 4 = 3 -> 0

\* arccos of c2 / 2 after np.clip to [-1, 1], in quarter turns (0 .. 2).
ArccosQ(c2) == IF c2 >= 2 THEN 0 ELSE IF c2 <= -2 THEN 2 ELSE IF c2 = 0 THEN 1
               ELSE CHOOSE q \in {} : TRUE

\* _cross_mat: skew symmetric matrix of a 3-vector.
CrossMat(vec) ==
    << <<0, -vec[3], vec[2]>>, <<vec[3], 0, -vec[1]>>, <<-vec[2], vec[1], 0>> >>

\* rotation_to_mat.  rad is an array, or the plain number 0 (scalar), which
\* _cross_mat cannot index: the call raises TypeError (ok = FALSE).
RotationToMat(rad) ==
    IF rad.scalar THEN NoMat
    ELSE LET ang   == Norm(rad.v)
             unit  == IF ang # 0 THEN [i \in Idx |-> QuotI(rad.v[i], ang)] ELSE rad.v
             cross == CrossMat(unit)
         IN  [ok |-> TRUE,
              m  |-> Plus(Plus(Eye3, Scale(cross, SinQ(ang))),
                          Scale(Dot(cross, cross), 1 - CosQ(ang)))]

\* mat_to_angle.  mod < 1e-7 is compared after scaling both sides by 1e7.
MatToAngle(rot) ==
    LET rad == <<rot[3][2] - rot[2][3], rot[1][3] - rot[3][1], rot[2][1] - rot[1][2]>>
        mod == Norm(rad)
    IN  IF mod * 10000000 < 1
        THEN [scalar |-> TRUE, v |-> <<0, 0, 0>>]
        ELSE LET theta == ArccosQ(Trace(rot) - 1)
             IN  [scalar |-> FALSE, v |-> [i \in Idx |-> QuotI(rad[i] * theta, mod)]]

AxisVecs ==
    {[i \in Idx |-> IF i = a THEN k ELSE 0] : a \in Idx, k \in (-MaxQuarter)..MaxQuarter}

InitExp ==
    /\ expo \in {[IdleExpo EXCEPT !.pc = "start", !.rad0 = v] : v \in AxisVecs}
    /\ cam = IdleCam /\ avg = IdleAvg /\ sel = IdleSel /\ est = IdleEst
    /\ rng = IdleRng /\ res = IdleRes /\ mos = IdleMos

\* rot = rotation_to_mat(rad): every rotation of the grid arises this way.
ExpToMat ==
    /\ expo.pc = "start"
    /\ expo' = [expo EXCEPT !.pc = "mat",
                            !.rot = RotationToMat([scalar |-> FALSE, v |-> expo.rad0])]
    /\ UNCHANGED OthersExp

\* rad = mat_to_angle(rot)
ExpToAngle ==
    /\ expo.pc = "mat"
    /\ expo' = [expo EXCEPT !.pc = "angle", !.rad = MatToAngle(expo.rot.m)]
    /\ UNCHANGED OthersExp

\* rotation_to_mat(rad)
ExpBack ==
    /\ expo.pc = "angle"
    /\ expo' = [expo EXCEPT !.pc = "back", !.back = RotationToMat(expo.rad)]
    /\ UNCHANGED OthersExp

NextExp == ExpToMat \/ ExpToAngle \/ ExpBack

SpecExp == InitExp /\ [][NextExp]_vars

\* C8: converting a rotation matrix to the exponential representation and
\* back returns the matrix, for every rotation, half turns included.
C8_RoundTrip == expo.pc = "back" => (expo.back.ok /\ expo.back.m = expo.rot.m)

\* ------------------------------------------------------------ Image (camera)
Perms == {p \in [Idx -> Idx] : \A i, j \in Idx : i # j => p[i] # p[j]}

\* The 24 rotations that map the coordinate axes onto themselves.
CubeRots ==
    {M \in {[i \in Idx |-> [j \in Idx |-> IF j = p[i] THEN s[i] ELSE 0]] :
                p \in Perms, s \in [Idx -> {-1, 1}]} : Det(M) = 1}

\* A rotation by 60 degrees about (1, 1, 1), times 3.
Rot60x3 == << <<2, -1, 2>>, <<2, 2, -1>>, <<-1, 2, 2>> >>

Rotations == {Mat(R, 1) : R \in CubeRots} \cup {Mat(Rot60x3, 3), Mat(Transpose(Rot60x3), 3)}

\* Invertible intrinsics: focal f, principal point (cx, cy), skew k.
Intrinsics ==
    {Mat(<< <<f, k, cx>>, <<0, f, cy>>, <<0, 0, 1>> >>, 1) :
        f \in 1..MaxFocal, k \in {0, 1}, cx \in {0, 2}, cy \in {0, -1}}

\* Image.hom: homography to normalized coordinates.
ImageHom(rot, intr) == MatDot(rot, MatInv(intr))

ImageInvHomNoTranspose(rot, intr) == MatDot(intr, rot)

\* Image.inv_hom: inverse camera transform.
ImageInvHom(rot, intr) == MatDot(intr, MatT(rot))

InitCam ==
    /\ cam \in {[IdleCam EXCEPT !.pc = "new", !.rot = r, !.intr = k] :
                    r \in Rotations, k \in Intrinsics}
    /\ expo = IdleExpo /\ avg = IdleAvg /\ sel = IdleSel /\ est = IdleEst
    /\ rng = IdleRng /\ res = IdleRes /\ mos = IdleMos

CamHom ==
    /\ cam.pc = "new"
    /\ cam' = [cam EXCEPT !.pc = "hom", !.hom = ImageHom(cam.rot, cam.intr)]
    /\ UNCHANGED OthersCam

CamInvHom ==
    /\ cam.pc = "hom"
    /\ cam' = [cam EXCEPT !.pc = "inv", !.inv = ImageInvHom(cam.rot, cam.intr)]
    /\ UNCHANGED OthersCam

\* cam.hom().dot(cam.inv_hom())
CamCompose ==
    /\ cam.pc = "inv"
    /\ cam' = [cam EXCEPT !.pc = "done", !.prod = MatDot(cam.hom, cam.inv)]
    /\ UNCHANGED OthersCam

NextCam == CamHom \/ CamInvHom \/ CamCompose

SpecCam == InitCam /\ [][NextCam]_vars

\* C9: for a camera built from any rotation and any invertible intrinsics,
\* hom() . inv_hom() is the identity.
C9_HomInvHomIdentity == cam.pc = "done" => cam.prod = MatEye

\* A camera with a non-symmetric rotation and an off-centre, skewed K with
\* focal length above 1 has been composed.
C9_Witness ==
    /\ cam.pc = "done"
    /\ cam.rot # MatT(cam.rot)
    /\ cam.intr.num[1][2] # 0 /\ cam.intr.num[1][3] # 0 /\ cam.intr.num[1][1] > 1

\* ------------------------------------------------------- absolute_rotations
\* to_rotation on an orthogonal array: its singular values are all 1, so the
\* product uu_.dot(vv_) is the array itself; a reflection is negated.
ToRotation(M) ==
    IF MatDot(M, MatT(M)) = MatEye
    THEN IF Det(M.num) < 0 THEN Mat(Scale(M.num, -1), M.den) ELSE M
    ELSE CHOOSE R \in {} : TRUE

Reverse(seq) == [k \in 1..Len(seq) |-> seq[Len(seq) + 1 - k]]

Last(seq) == seq[Len(seq)]

\* Quarter turns about the x, y and z axes.
QuarterTurns ==
    {Mat(RotationToMat([scalar |-> FALSE, v |-> [i \in Idx |-> IF i = a THEN 1 ELSE 0]]).m, 1) :
        a \in Idx}

FocalK(f) == Mat(<< <<f, 0, 0>>, <<0, f, 0>>, <<0, 0, 1>> >>, 1)

\* The noise-free homography K . R . K^-1 of a planted rotation.
PlantedHom(R, K) == MatDot(K, MatDot(R, MatInv(K)))

PlantedChains == UNION {[1..n -> QuarterTurns] : n \in 1..MaxHoms}

InitAvg ==
    /\ avg \in {[IdleAvg EXCEPT !.pc = "start", !.planted = c,
                                !.homs = [k \in 1..Len(c) |-> PlantedHom(c[k], FocalK(f))],
                                !.kints = [k \in 1..Len(c) |-> FocalK(f)]] :
                    c \in PlantedChains, f \in 1..MaxFocal}
    /\ expo = IdleExpo /\ cam = IdleCam /\ sel = IdleSel /\ est = IdleEst
    /\ rng = IdleRng /\ res = IdleRes /\ mos = IdleMos

\* rots = [to_rotation(inv(kint).dot(hom.dot(kint))) ...]; mid = len(rots) // 2;
\* rot_r = [rots[mid]]
AvgRots ==
    /\ avg.pc = "start"
    /\ LET n    == IF Len(avg.homs) < Len(avg.kints) THEN Len(avg.homs) ELSE Len(avg.kints)
           rots == [k \in 1..n |->
                       ToRotation(MatDot(MatInv(avg.kints[k]), MatDot(avg.homs[k], avg.kints[k])))]
           mid  == n \div 2
       IN  avg' = [avg EXCEPT !.pc = "right", !.rots = rots, !.mid = mid,
                              !.rot_r = <<rots[mid + 1]>>, !.i = mid + 1]
    /\ UNCHANGED OthersAvg

\* for rot in rots[mid+1:]: rot_r.append(rot.dot(rot_r[-1]))
AvgRightStep ==
    /\ avg.pc = "right"
    /\ avg.i < Len(avg.rots)
    /\ avg' = [avg EXCEPT !.i = avg.i + 1,
                          !.rot_r = Append(avg.rot_r, MatDot(avg.rots[avg.i + 1], Last(avg.rot_r)))]
    /\ UNCHANGED OthersAvg

\* rot_l = [np.eye(3)]
AvgLeftInit ==
    /\ avg.pc = "right"
    /\ avg.i = Len(avg.rots)
    /\ avg' = [avg EXCEPT !.pc = "left", !.rot_l = <<MatEye>>, !.i = 0]
    /\ UNCHANGED OthersAvg

\* for rot in rots[:mid]: rot_l.append(rot.T.dot(rot_l[-1]))
AvgLeftStep ==
    /\ avg.pc = "left"
    /\ avg.i < avg.mid
    /\ avg' = [avg EXCEPT !.i = avg.i + 1,
                          !.rot_l = Append(avg.rot_l, MatDot(MatT(avg.rots[avg.i + 1]), Last(avg.rot_l)))]
    /\ UNCHANGED OthersAvg

\* return rot_l[::-1] + rot_r
AvgReturn ==
    /\ avg.pc = "left"
    /\ avg.i = avg.mid
    /\ avg' = [avg EXCEPT !.pc = "done", !.out = Reverse(avg.rot_l) \o avg.rot_r]
    /\ UNCHANGED OthersAvg

NextAvg == AvgRots \/ AvgRightStep \/ AvgLeftInit \/ AvgLeftStep \/ AvgReturn

SpecAvg == InitAvg /\ [][NextAvg]_vars

\* C2: on noise-free homographies of planted rotations R_0 .. R_(n-1) the
\* result A has the identity at index mid = n // 2 and A[i+1] = R_i . A[i]
\* for every adjacent pair of indices, on both sides of mid.
C2_ChainReproduced ==
    avg.pc = "done" =>
        /\ avg.out[(Len(avg.homs) \div 2) + 1] = MatEye
        /\ \A i \in 0..(Len(avg.out) - 2) :
               i < Len(avg.planted) =>
                   avg.out[i + 2] = MatDot(avg.planted[i + 1], avg.out[i + 1])

\* C3: for n homographies and n intrinsics the result holds exactly n
\* rotations, one per camera.
C3_OnePerCamera == avg.pc = "done" => Len(avg.out) = Len(avg.homs)

\* ----------------------------------------------------------- focal estimate
\* _focal: get focal from two squared estimates.
Focal(v1, v2, d1, d2) ==
    LET swap == FLt(v1, v2)
        w1   == IF swap THEN v2 ELSE v1
        w2   == IF swap THEN v1 ELSE v2
    IN  IF FGt0(w1) /\ FGt0(w2)
        THEN FSqrt(IF FLt(FAbs(d2), FAbs(d1)) THEN w1 ELSE w2)
        ELSE IF FGt0(w1) THEN FSqrt(w1)
        ELSE FInt(0)

\* hom.ravel()[k] of a float array, k = 0 .. 8.
Ravel(M, k) == Flt(M.num[(k \div 3) + 1][(k % 3) + 1], M.den)

\* _get_focal: the estimate of one pass.
GetFocalPass(hom) ==
    LET h(k) == Ravel(hom, k)
        d1 == FMul(h(6), h(7))
        d2 == FMul(FSub(h(7), h(6)), FAdd(h(7), h(6)))
        v1 == FDiv(FNeg(FAdd(FMul(h(0), h(1)), FMul(h(3), h(4)))), d1)
        v2 == FDiv(FSub(FSub(FAdd(FMul(h(0), h(0)), FMul(h(3), h(3))), FMul(h(1), h(1))),
                        FMul(h(4), h(4))), d2)
        f1 == Focal(v1, v2, d1, d2)
        e1 == FAdd(FMul(h(0), h(3)), FMul(h(1), h(4)))
        e2 == FSub(FSub(FAdd(FMul(h(0), h(0)), FMul(h(1), h(1))), FMul(h(3), h(3))),
                   FMul(h(4), h(4)))
        u1 == FDiv(FMul(FNeg(h(2)), h(5)), e1)
        u2 == FDiv(FSub(FMul(h(5), h(5)), FMul(h(2), h(2))), e2)
        f0 == Focal(u1, u2, e1, e2)
    IN  FSqrt(FMul(f0, f1))

\* get_focal: the pass on the homography, or on its inverse when that is 0.
GetFocal(hom) ==
    LET f_ == GetFocalPass(hom)
    IN  IF FTruthy(f_) THEN f_ ELSE GetFocalPass(MatInv(hom))

RECURSIVE InsertSorted(_, _)
InsertSorted(x, seq) ==
    IF seq = <<>> THEN <<x>>
    ELSE IF FLt(seq[1], x) THEN <<seq[1]>> \o InsertSorted(x, Tail(seq))
    ELSE <<x>> \o seq

RECURSIVE SortFlt(_)
SortFlt(seq) == IF seq = <<>> THEN <<>> ELSE InsertSorted(seq[1], SortFlt(Tail(seq)))

\* np.median of a non-empty list: NaN if it holds a NaN, else the middle of
\* the sorted values (the mean of the two middle ones for an even count).
Median(seq) ==
    LET n == Len(seq)
        srt == SortFlt(seq)
    IN  IF \E k \in 1..n : FIsNan(seq[k]) THEN FNan
        ELSE IF n % 2 = 1 THEN srt[(n \div 2) + 1]
        ELSE FDiv(FAdd(srt[n \div 2], srt[(n \div 2) + 1]), FInt(2))

\* The values np.median is given in initial_estimate.
MedianInput(focals) == focals

SelCandidates == {FInt(-1), FInt(0), FInt(1), FInt(4), Flt(9, 4)}

SelDenominators == {FInt(-3), FInt(-1), FInt(1), Flt(5, 2)}

InitSel ==
    /\ sel \in {[IdleSel EXCEPT !.pc = "call", !.v1 = a, !.v2 = b, !.d1 = c, !.d2 = d] :
                    a \in SelCandidates, b \in SelCandidates,
                    c \in SelDenominators, d \in SelDenominators}
    /\ expo = IdleExpo /\ cam = IdleCam /\ avg = IdleAvg /\ est = IdleEst
    /\ rng = IdleRng /\ res = IdleRes /\ mos = IdleMos

SelFocal ==
    /\ sel.pc = "call"
    /\ sel' = [sel EXCEPT !.pc = "done", !.ret = Focal(sel.v1, sel.v2, sel.d1, sel.d2)]
    /\ UNCHANGED OthersSel

NextSel == SelFocal

SpecSel == InitSel /\ [][NextSel]_vars

\* C5: with both candidates positive _focal returns the root of the one whose
\* own denominator is larger in magnitude (v1 if |d1| > |d2|, else v2); with
\* exactly one positive, its root; with none, 0.
C5_FocalSelection ==
    sel.pc = "done" =>
        sel.ret = IF FGt0(sel.v1) /\ FGt0(sel.v2)
                  THEN FSqrt(IF FLt(FAbs(sel.d2), FAbs(sel.d1)) THEN sel.v1 ELSE sel.v2)
                  ELSE IF FGt0(sel.v1) THEN FSqrt(sel.v1)
                  ELSE IF FGt0(sel.v2) THEN FSqrt(sel.v2)
                  ELSE FInt(0)

\* Pairwise homographies K . R . K^-1: no rotation, a pan by a quarter turn
\* and a rotation about (1, 1, 1), for each focal length.
PairHoms ==
    {PlantedHom(R, FocalK(f)) :
        R \in {MatEye, Mat(RotationToMat([scalar |-> FALSE, v |-> <<0, 1, 0>>]).m, 1),
               Mat(Rot60x3, 3)},
        f \in 1..MaxFocal}

InitEst ==
    /\ est \in {[IdleEst EXCEPT !.pc = "focals", !.homs = hs] :
                    hs \in UNION {[1..n -> PairHoms] : n \in 1..MaxHoms}}
    /\ expo = IdleExpo /\ cam = IdleCam /\ avg = IdleAvg /\ sel = IdleSel
    /\ rng = IdleRng /\ res = IdleRes /\ mos = IdleMos

\* focals = [get_focal(hom) for hom in homs], one element per step
EstFocal ==
    /\ est.pc = "focals"
    /\ Len(est.focals) < Len(est.homs)
    /\ est' = [est EXCEPT !.focals = Append(est.focals, GetFocal(est.homs[Len(est.focals) + 1]))]
    /\ UNCHANGED OthersEst

\* foc = np.median([f for f in focals])
EstMedian ==
    /\ est.pc = "focals"
    /\ Len(est.focals) = Len(est.homs)
    /\ est' = [est EXCEPT !.pc = "median", !.foc = Median(MedianInput(est.focals))]
    /\ UNCHANGED OthersEst

NextEst == EstFocal \/ EstMedian

SpecEst == InitEst /\ [][NextEst]_vars

\* C4: the shared focal length is the median of the non-zero per-pair
\* estimates only; a degenerate pair (estimate 0) is left out.
C4_DegenerateExcluded ==
    LET nz == SelectSeq(est.focals, LAMBDA f : f # FInt(0))
    IN  (est.pc = "median" /\ nz # <<>>) => est.foc = Median(nz)

\* ---------------------------------------------------- _proj_img_range_corners
MinI(a, b) == IF a < b THEN a ELSE b

MaxI(a, b) == IF a > b THEN a ELSE b

\* np.pi on the angle grid: HalfTurn grid steps make pi.
Pi == HalfTurn

ProjImgRangeCornersHalfPeriod(pts) ==
    LET xmin == MinI(pts[1][1], pts[3][1])
        xmax == MaxI(pts[2][1], pts[4][1])
        ymin == MinI(pts[1][2], pts[2][2])
        ymax == MaxI(pts[3][2], pts[4][2])
    IN  << <<xmin, ymin>>,
           <<IF xmin > xmax THEN xmax + Pi ELSE xmax,
             IF ymin > ymax THEN ymax + Pi ELSE ymax>> >>

\* _proj_img_range_corners, from the projected corners pts =
\* SphProj.hom2proj(hom.dot(corners)): (min, max) with the wraparound check.
ProjImgRangeCorners(pts) ==
    LET xmin == MinI(pts[1][1], pts[3][1])
        xmax == MaxI(pts[2][1], pts[4][1])
        ymin == MinI(pts[1][2], pts[2][2])
        ymax == MaxI(pts[3][2], pts[4][2])
    IN  << <<xmin, ymin>>,
           <<IF xmin > xmax THEN xmax + 2 * Pi ELSE xmax,
             IF ymin > ymax THEN ymax + Pi ELSE ymax>> >>

\* Spherical coordinates: x in [-pi, pi], y in [-pi/2, pi/2].
ProjPoints == ((-Pi)..Pi) \X ((-(Pi \div 2))..(Pi \div 2))

InitRng ==
    /\ rng \in {[IdleRng EXCEPT !.pc = "call", !.pts = p] : p \in [1..4 -> ProjPoints]}
    /\ expo = IdleExpo /\ cam = IdleCam /\ avg = IdleAvg /\ sel = IdleSel
    /\ est = IdleEst /\ res = IdleRes /\ mos = IdleMos

RngCorners ==
    /\ rng.pc = "call"
    /\ rng' = [rng EXCEPT !.pc = "done", !.range = ProjImgRangeCorners(rng.pts)]
    /\ UNCHANGED OthersRng

NextRng == RngCorners

SpecRng == InitRng /\ [][NextRng]_vars

\* C7: the Range of _proj_img_range_corners has max >= min componentwise;
\* xmax got one period 2 pi exactly when the corners gave xmin > xmax, ymax
\* one period pi exactly when they gave ymin > ymax.
C7_RangeOrdered ==
    rng.pc = "done" =>
        LET xmin == MinI(rng.pts[1][1], rng.pts[3][1])
            xmax == MaxI(rng.pts[2][1], rng.pts[4][1])
            ymin == MinI(rng.pts[1][2], rng.pts[2][2])
            ymax == MaxI(rng.pts[3][2], rng.pts[4][2])
        IN  /\ rng.range[1] = <<xmin, ymin>>
            /\ rng.range[2][1] = xmax + (IF xmin > xmax THEN 2 * Pi ELSE 0)
            /\ rng.range[2][2] = ymax + (IF ymin > ymax THEN Pi ELSE 0)
            /\ rng.range[2][1] >= rng.range[1][1]
            /\ rng.range[2][2] >= rng.range[1][2]

\* A Range that was pushed right and up: the left corners lie at pi, the right
\* corners at -pi, the lower corners above the upper ones.
C7_Witness ==
    /\ rng.pc = "done"
    /\ MinI(rng.pts[1][1], rng.pts[3][1]) = Pi
    /\ MaxI(rng.pts[2][1], rng.pts[4][1]) = -Pi
    /\ MinI(rng.pts[1][2], rng.pts[2][2]) > MaxI(rng.pts[3][2], rng.pts[4][2])

\* ------------------------------------- estimate_resolution, stitch geometry
\* np.round of a finite float: to the nearest integer, halves to the even one.
FRound(a) ==
    LET q == a.n \div a.d
        r == a.n % a.d
    IN  IF 2 * r < a.d THEN q
        ELSE IF 2 * r > a.d THEN q + 1
        ELSE IF q % 2 = 0 THEN q ELSE q + 1

\* int() of a finite float: truncation towards zero.
FTrunc(a) == QuotI(a.n, a.d)

FMax(a, b) == IF FLt(a, b) THEN b ELSE a

Axes == 1..2

\* Elementwise minimum of the Range minima, maximum of the Range maxima.
MinOver(ranges, ax) ==
    CHOOSE m \in {ranges[k][1][ax] : k \in 1..Len(ranges)} :
        \A k \in 1..Len(ranges) : m <= ranges[k][1][ax]

MaxOver(ranges, ax) ==
    CHOOSE m \in {ranges[k][2][ax] : k \in 1..Len(ranges)} :
        \A k \in 1..Len(ranges) : m >= ranges[k][2][ax]

\* The resolution of the central image: its Range extent over its shape.
NativeResolution(ranges, im_shape) ==
    LET mid == ranges[(Len(ranges) \div 2) + 1]
    IN  [ax \in Axes |-> FDiv(FInt(mid[2][ax] - mid[1][ax]), FInt(im_shape[ax]))]

\* max_side = np.max(size / resolution) for the native resolution.
MaxSide(ranges, im_shape) ==
    LET r == NativeResolution(ranges, im_shape)
    IN  FMax(FDiv(FInt(MaxOver(ranges, 1) - MinOver(ranges, 1)), r[1]),
             FDiv(FInt(MaxOver(ranges, 2) - MinOver(ranges, 2)), r[2]))

EstimateResolutionInverseScale(ranges, im_shape) ==
    LET r  == NativeResolution(ranges, im_shape)
        ms == MaxSide(ranges, im_shape)
    IN  [resolution |->
             IF FLt(FInt(MAX_RESOLUTION), ms)
             THEN [ax \in Axes |-> FMul(r[ax], FDiv(FInt(MAX_RESOLUTION), ms))]
             ELSE r,
         im_range |-> << <<MinOver(ranges, 1), MinOver(ranges, 2)>>,
                         <<MaxOver(ranges, 1), MaxOver(ranges, 2)>> >>]

\* estimate_resolution: (resolution, (min_r, max_r)).
EstimateResolution(ranges, im_shape) ==
    LET r  == NativeResolution(ranges, im_shape)
        ms == MaxSide(ranges, im_shape)
    IN  [resolution |->
             IF FLt(FInt(MAX_RESOLUTION), ms)
             THEN [ax \in Axes |-> FMul(r[ax], FDiv(ms, FInt(MAX_RESOLUTION)))]
             ELSE r,
         im_range |-> << <<MinOver(ranges, 1), MinOver(ranges, 2)>>,
                         <<MaxOver(ranges, 1), MaxOver(ranges, 2)>> >>]

\* target = (im_range[1] - im_range[0]) / resolution
StitchTarget(im_range, resolution) ==
    [ax \in Axes |-> FDiv(FInt(im_range[2][ax] - im_range[1][ax]), resolution[ax])]

StitchShapeTruncated(target) == <<FTrunc(target[2]), FTrunc(target[1])>>

\* shape = tuple(int(t) for t in np.round(target))[::-1], in y, x order
StitchShape(target) == <<FRound(target[2]), FRound(target[1])>>

\* np.round((point - im_range[0]) / resolution).astype(np.int32)
StitchPixel(point, im_range, resolution) ==
    [ax \in Axes |-> FRound(FDiv(FInt(point[ax] - im_range[1][ax]), resolution[ax]))]

\* The length of the slice a[b:t] of an axis of n elements.
SliceLen(b, t, n) ==
    LET clip(i) == IF i < 0 THEN MaxI(i + n, 0) ELSE MinI(i, n)
    IN  MaxI(clip(t) - clip(b), 0)

\* Range coordinates on the projection surface, in grid steps.
RangeGrid == {0, 1, 3}

\* Ranges with max >= min on both axes.
Boxes ==
    {b \in (RangeGrid \X RangeGrid) \X (RangeGrid \X RangeGrid) :
        b[1][1] <= b[2][1] /\ b[1][2] <= b[2][2]}

\* Shapes (width, height) of the central image.
ImShapes == {<<3, 2>>, <<1000, 750>>, <<2100, 1400>>}

\* The regions as stitch holds them after the Range pass; the central image
\* covers a Range of positive extent.
InitRes ==
    /\ res \in {[IdleRes EXCEPT !.pc = "ranges", !.ranges = rs, !.im_shape = sh] :
                    rs \in {r \in UNION {[1..n -> Boxes] : n \in 1..MaxRegions} :
                                LET mid == r[(Len(r) \div 2) + 1]
                                IN  mid[1][1] < mid[2][1] /\ mid[1][2] < mid[2][2]},
                    sh \in ImShapes}
    /\ expo = IdleExpo /\ cam = IdleCam /\ avg = IdleAvg /\ sel = IdleSel
    /\ est = IdleEst /\ rng = IdleRng /\ mos = IdleMos

\* resolution, im_range = estimate_resolution(regions)
ResEstimate ==
    /\ res.pc = "ranges"
    /\ LET e == EstimateResolution(res.ranges, res.im_shape)
       IN  res' = [res EXCEPT !.pc = "estimated", !.resolution = e.resolution,
                              !.im_range = e.im_range]
    /\ UNCHANGED OthersRes

\* target, shape and the zeroed mosaic of that shape
ResAllocate ==
    /\ res.pc = "estimated"
    /\ LET t == StitchTarget(res.im_range, res.resolution)
       IN  res' = [res EXCEPT !.pc = "regions", !.target = t, !.shape = StitchShape(t)]
    /\ UNCHANGED OthersRes

\* bottom and top of the next region
ResRect ==
    /\ res.pc = "regions"
    /\ Len(res.bottom) < Len(res.ranges)
    /\ LET reg == res.ranges[Len(res.bottom) + 1]
       IN  res' = [res EXCEPT
                       !.bottom = Append(res.bottom, StitchPixel(reg[1], res.im_range, res.resolution)),
                       !.top = Append(res.top, StitchPixel(reg[2], res.im_range, res.resolution))]
    /\ UNCHANGED OthersRes

NextRes == ResEstimate \/ ResAllocate \/ ResRect

SpecRes == InitRes /\ [][NextRes]_vars

\* The longer side of the global extent at the central image's resolution.
ResLongerSide == MaxSide(res.ranges, res.im_shape)

\* C6: if the global extent at the central image's resolution has a longer
\* side above 1400, both resolution components are scaled by one factor and
\* the buffer's longer side is 1400; otherwise the resolution is unchanged;
\* the longer side never exceeds 1400.
C6_ResolutionClamp ==
    res.pc = "regions" =>
        LET native == NativeResolution(res.ranges, res.im_shape)
            longer == MaxI(res.shape[1], res.shape[2])
        IN  /\ FLt(FInt(MAX_RESOLUTION), ResLongerSide) =>
                   /\ FDiv(res.resolution[1], native[1]) = FDiv(res.resolution[2], native[2])
                   /\ longer = MAX_RESOLUTION
            /\ ~FLt(FInt(MAX_RESOLUTION), ResLongerSide) => res.resolution = native
            /\ longer <= MAX_RESOLUTION

\* The clamp acted: the longer side was above 1400, the buffer is 1400 on one
\* axis and shorter on the other.
C6_Witness ==
    /\ res.pc = "regions"
    /\ FLt(FInt(MAX_RESOLUTION), ResLongerSide)
    /\ MaxI(res.shape[1], res.shape[2]) = MAX_RESOLUTION
    /\ MinI(res.shape[1], res.shape[2]) < MAX_RESOLUTION
    /\ MinI(res.shape[1], res.shape[2]) > 0

\* C10: every region's sub-rectangle lies inside the mosaic, 0 <= bottom <=
\* top <= buffer size on both axes, so the slice it writes has the shape
\* top - bottom of its tile.
C10_RectInsideMosaic ==
    res.pc = "regions" =>
        \A k \in 1..Len(res.bottom) :
            \A ax \in Axes :
                LET size == res.shape[3 - ax]
                    b    == res.bottom[k][ax]
                    t    == res.top[k][ax]
                IN  /\ 0 <= b /\ b <= t /\ t <= size
                    /\ SliceLen(b, t, size) = t - b

\* A region was placed off the mosaic's corner, up to its far edges, in a
\* clamped mosaic, at a pixel position that needed rounding.
C10_Witness ==
    /\ res.pc = "regions"
    /\ FLt(FInt(MAX_RESOLUTION), ResLongerSide)
    /\ \E k \in 1..Len(res.bottom) :
           /\ 0 < res.bottom[k][1] /\ res.bottom[k][1] < res.top[k][1]
           /\ res.top[k][1] = res.shape[2]
           /\ res.top[k][2] = res.shape[1]
           /\ FDiv(FInt(res.ranges[k][1][1] - res.im_range[1][1]), res.resolution[1]).d > 1

\* --------------------------------------------------- stitch: the compositing
\* The mosaic's shape (rows, columns): one scanline of MosaicWidth pixels.
MosaicShape == <<1, MosaicWidth>>

MosaicPixels == (0..(MosaicShape[1] - 1)) \X (0..(MosaicShape[2] - 1))

\* hh_, ww_ = reg.img.shape[:2]
ImgShape == <<1, 2>>

\* The image of the k-th region processed, at column x and row y (uint8).
Img(k, x, y) == (40 * k + 10 * x + y + 1) % 256

\* Source coordinates (x, y) a pixel can map to through reg.inv_hom(): the
\* image's last column, the first column right of it, and a row above it.
SrcPoints == {<<1, 0>>, <<2, 0>>, <<0, -1>>}

\* mask: the pixel maps outside the source image.
Mask(pt) == pt[1] < 0 \/ pt[1] >= ImgShape[2] \/ pt[2] < 0 \/ pt[2] >= ImgShape[1]

\* cv2.remap at integer coordinates with BORDER_CONSTANT: the image's pixel,
\* or 0 outside the image (x_pr[mask] = -1 falls there).
Remap(k, pt) ==
    IF pt[1] >= 0 /\ pt[1] < ImgShape[2] /\ pt[2] >= 0 /\ pt[2] < ImgShape[1]
    THEN Img(k, pt[1], pt[2]) ELSE 0

\* The pixels of mosaic[bottom[1]:top[1], bottom[0]:top[0]] as (row, column).
InRect(reg, p) ==
    /\ reg.bottom[2] <= p[1] /\ p[1] < reg.top[2]
    /\ reg.bottom[1] <= p[2] /\ p[2] < reg.top[1]

\* x_pr at mosaic pixel p: the tile is indexed from the rectangle's corner.
XPr(reg, p) == reg.x_pr[<<p[1] - reg.bottom[2], p[2] - reg.bottom[1]>>]

CompositeUnmasked(mosaic, reg, k) ==
    [p \in MosaicPixels |->
        IF InRect(reg, p)
        THEN LET pt     == XPr(reg, p)
                 masked == IF Mask(pt) THEN <<-1, -1>> ELSE pt
             IN  Remap(k, masked)
        ELSE mosaic[p]]

\* One region's pass: mosaic[rect] = np.where(mask, tile, warped).
Composite(mosaic, reg, k) ==
    [p \in MosaicPixels |->
        IF InRect(reg, p)
        THEN LET pt     == XPr(reg, p)
                 masked == IF Mask(pt) THEN <<-1, -1>> ELSE pt
                 warped == Remap(k, masked)
                 tile   == mosaic[p]
             IN  IF Mask(pt) THEN tile ELSE warped
        ELSE mosaic[p]]

\* Sub-rectangles inside the mosaic, with x_pr for every pixel of the tile.
Regions ==
    UNION {[bottom : {<<bx, by>>}, top : {<<tx, ty>>},
            x_pr : [(0..(ty - by - 1)) \X (0..(tx - bx - 1)) -> SrcPoints]] :
              bx \in 0..MosaicShape[2], tx \in 0..MosaicShape[2],
              by \in 0..MosaicShape[1], ty \in 0..MosaicShape[1]}

\* mosaic = np.zeros(shape + (3,)); no region processed yet.
InitMos ==
    /\ mos = [pc |-> "loop", mosaic |-> [p \in MosaicPixels |-> 0], passes |-> <<>>]
    /\ expo = IdleExpo /\ cam = IdleCam /\ avg = IdleAvg /\ sel = IdleSel
    /\ est = IdleEst /\ rng = IdleRng /\ res = IdleRes

\* for reg in regions: one pass of the loop
MosPass ==
    /\ mos.pc = "loop"
    /\ Len(mos.passes) < MaxPasses
    /\ \E reg \in Regions :
           /\ reg.bottom[1] <= reg.top[1] /\ reg.bottom[2] <= reg.top[2]
           /\ mos' = [mos EXCEPT !.mosaic = Composite(mos.mosaic, reg, Len(mos.passes) + 1),
                                 !.passes = Append(mos.passes, reg)]
    /\ UNCHANGED OthersMos

\* The loop ends when the regions are exhausted; returning the mosaic changes
\* nothing.
Next == MosPass

Init == InitMos

Spec == Init /\ [][Next]_vars

\* The pixel lies in the k-th pass's sub-rectangle and maps inside its image.
ValidFor(k, p) ==
    /\ InRect(mos.passes[k], p)
    /\ LET pt == XPr(mos.passes[k], p)
       IN  0 <= pt[1] /\ pt[1] < ImgShape[2] /\ 0 <= pt[2] /\ pt[2] < ImgShape[1]

\* C1: every pixel of the mosaic holds the resampled value of the last pass,
\* in processing order, whose sub-rectangle contains it and for which it is
\* valid; a pixel valid for no pass holds its initial 0.
C1_LastValidWins ==
    \A p \in MosaicPixels :
        LET valid == {k \in 1..Len(mos.passes) : ValidFor(k, p)}
        IN  IF valid = {} THEN mos.mosaic[p] = 0
            ELSE LET k  == CHOOSE j \in valid : \A i \in valid : i <= j
                     pt == XPr(mos.passes[k], p)
                 IN  mos.mosaic[p] = Img(k, pt[1], pt[2])

\* Two passes over both pixels: the second is invalid at pixel 0, which keeps
\* the first pass's value, and valid at pixel 1, which it overwrites.
C1_Witness ==
    /\ Len(mos.passes) >= 2
    /\ ValidFor(1, <<0, 0>>) /\ InRect(mos.passes[2], <<0, 0>>) /\ ~ValidFor(2, <<0, 0>>)
    /\ ValidFor(1, <<0, 1>>) /\ ValidFor(2, <<0, 1>>)
    /\ mos.mosaic[<<0, 0>>] # 0 /\ mos.mosaic[<<0, 1>>] # mos.mosaic[<<0, 0>>]

====
